---- MODULE Spec2Model ----
(***************************************************************************)
(* Game process monitoring and play-time tracking of ReinaManager          *)
(* (src-tauri/src/utils/game_monitor.rs, Windows build and the Linux       *)
(* monitor task, and the launch / stop commands of                         *)
(* src-tauri/src/utils/launch.rs).                                         *)
(*                                                                         *)
(* One monitoring session is modelled as three concurrent activities over  *)
(* shared state: the async monitor task (run_game_monitor), the foreground *)
(* hook thread (start_foreground_hook) and callers of stop_game_session,   *)
(* next to an environment in which processes start and die, the foreground *)
(* window changes and wall-clock time passes.                              *)
(*                                                                         *)
(* Spec / LiveSpec follow a session from a launch without options whose    *)
(* spawn succeeds. LaunchSpec covers launch_game with every option, path   *)
(* state and spawn result; RoundSpec the end of sessions of up to          *)
(* MaxSeconds; RescanSpec a game of three processes; LockSpec the lock     *)
(* operations of the four threads; TailSpec the last ticks of sessions of  *)
(* up to MaxSeconds; SharedDirSpec a manager installed in the game         *)
(* directory; EscapedSpec a stop call in two steps beside the hook thread; *)
(* SessionsSpec two monitor tasks and the registry; LinuxSpec the Linux    *)
(* monitor task.                                                           *)
(***************************************************************************)
EXTENDS Integers, FiniteSets, Sequences, TLC

\* ------------------------------------------------------------------------
\* Bounds of the model
\* ------------------------------------------------------------------------
MaxTime == 5        \* wall-clock horizon, seconds after the launch
MaxLate == 1        \* seconds by which a wake-up of the monitor task can be late
MaxSeconds == 91    \* longest accumulated time of the sessions whose end is examined

\* ------------------------------------------------------------------------
\* Program constants
\* ------------------------------------------------------------------------
MAX_CONSECUTIVE_FAILURES == 3
MONITOR_CHECK_INTERVAL_SECS == 1
TIME_UPDATE_INTERVAL_SECS == 1
STARTUP_GRACE_SECS == 3
LINUX_STARTUP_TICKS == 3     \* Linux: check intervals slept before the first scan
LINUX_SETTLE_TICKS == 9      \* Linux: check intervals slept before the second scan

GameId == 1         \* game_id of the launched game
OtherGameId == 2    \* a game_id no launch ever used
InitialPid == 1     \* PID returned by the spawn of the launch
ManagerPid == 9     \* std::process::id() of the manager itself
NoPid == 0          \* "no window" / initial last_pid of the hook
ERROR_ELEVATION_REQUIRED == 740     \* raw OS error of a spawn that needs elevation
ERROR_FILE_NOT_FOUND == 2           \* raw OS error of a spawn that fails otherwise

\* PIDs whose executable lies under the game directory: the launched process and two
\* more (a game started by a launcher, a child process); no PID is used twice
GamePids == {InitialPid, InitialPid + 1, InitialPid + 2}
\* the one of them that starts while a session is followed from its launch
LateStarters == {InitialPid + 1}
Pids == GamePids \cup {ManagerPid}
GameIds == {GameId, OtherGameId}
\* launches whose sessions are followed side by side
Sessions == {1, 2}

VARIABLES
    \* environment
    alive,                  \* PIDs of running processes
    fg,                     \* PID owning the foreground window, NoPid if none
    started,                \* PIDs of the game's family that have been started
    now,                    \* wall-clock seconds, as of the monitor task's last wake-up
    \* run_game_monitor
    pc,                     \* position of the monitor task
    start_time,
    accumulated_seconds,
    consecutive_failures,
    next_tick,              \* deadline of tick_interval
    new_candidate_pids_set, \* rescan result not yet published
    new_best_pid,
    mon_result,             \* return value of run_game_monitor
    \* state shared between the threads
    candidate_pids,         \* shared_candidate_pids
    best_pid,               \* MonitorState.best_pid
    is_foreground,          \* MonitorState.is_foreground
    stop_signal,
    registry,               \* ACTIVE_SESSIONS: game_id -> session
    \* start_foreground_hook
    hpc,                    \* position of the hook thread
    last_pid,
    \* stop_game_session
    stop_result,            \* the stop call that was the last step: its game_id, what
                            \* it returned and the count returned with Ok; status
                            \* "none" when the last step was no stop call
    stop_log,               \* what it did with each PID of its snapshot:
                            \* "none" (not in the snapshot) | "dead" | "killed" | "failed"
    \* observation
    notifications,          \* order of the notifications delivered so far
    failed_in_row,          \* liveness checks of the loop that failed since the last
                            \* one that succeeded (3 stands for "3 or more")
    session_ended,          \* payload of the delivered game-session-ended notification
    \* launch_game and the background task of start_magpie_for_game
    use_le,                 \* launch_options.le_launch
    use_magpie,             \* launch_options.magpie
    le_path,                \* what PathManager::get_le_path returns
    magpie_path,            \* what PathManager::get_magpie_path returns
    lpc,                    \* position of launch_game
    launch_result,          \* what launch_game returned to its caller
    raw_os_error,           \* e.raw_os_error() of the failed command.spawn(), 0 if none
    spawned,                \* external processes created so far, by the call that made them
    elevations,             \* calls of shell_execute_runas so far
    mpc,                    \* position of the background task of the upscaling tool
    \* locks
    \* further observation and environment
    time_update,            \* payload of the last game-time-update delivered by the
                            \* monitor task whose loop is running or was just left
                            \* (none once the task is past finalize_session)
    manager_under_game_dir, \* the manager's executable lies under the game directory
    stop_call,              \* a stop_game_session call between its copy of the candidate
                            \* list and its termination loop: the copied PIDs
    sessions,               \* launches of one game_id: session -> position, stop signal
    entries,                \* ACTIVE_SESSIONS as a map: game_id -> the session whose
                            \* stop signal and candidate list the entry holds (0: none)
    holders,                \* lock -> the guards alive on it, as <<thread, mode>>
    lock_pc                 \* thread -> where it is between its lock operations (at)
                            \* and the position its pending request leads to
                            \* (wants, "" when it waits for no lock)

vars == <<alive, fg, started, now, pc, start_time, accumulated_seconds,
          consecutive_failures, next_tick, new_candidate_pids_set,
          new_best_pid, mon_result, candidate_pids, best_pid, is_foreground,
          stop_signal, registry, hpc, last_pid, stop_result,
          stop_log, notifications, failed_in_row, session_ended, time_update,
          use_le, use_magpie, le_path, magpie_path, lpc, launch_result,
          raw_os_error, spawned, elevations, mpc, holders, lock_pc,
          manager_under_game_dir, stop_call, sessions, entries>>

envVars == <<alive, fg, started, now>>
monVars == <<pc, start_time, accumulated_seconds, consecutive_failures,
             next_tick, new_candidate_pids_set, new_best_pid, mon_result>>
hookVars == <<hpc, last_pid>>
stopVars == <<stop_result, stop_log>>
launchVars == <<use_le, use_magpie, le_path, magpie_path, lpc, launch_result,
                raw_os_error, spawned, elevations, mpc>>
lockVars == <<holders, lock_pc>>
sideVars == <<manager_under_game_dir, stop_call, sessions, entries>>

\* ------------------------------------------------------------------------
\* Helpers
\* ------------------------------------------------------------------------
\* no stop call has just returned
NoResult == [game_id |-> GameId, status |-> "none", terminated_count |-> 0]

NoSnapshot == [p \in Pids |-> "none"]

\* stop_game: the caller has consumed the returned value by the next step
ResultTaken == stop_result' = NoResult /\ stop_log' = NoSnapshot

\* the PIDs whose executable path starts with the game directory
DirectoryPids == GamePids \cup (IF manager_under_game_dir THEN {ManagerPid} ELSE {})

\* is_process_running: OpenProcess + GetExitCodeProcess == STILL_ACTIVE
IsProcessRunning(pid) == pid \in alive

\* get_processes_in_directory: running processes whose executable is under the game directory
GetProcessesInDirectory == {p \in alive : p \in DirectoryPids}

\* get_all_candidate_pids: the directory scan without the manager itself
GetAllCandidatePids == {p \in GetProcessesInDirectory : p # ManagerPid}

\* the executable of the running process pid lies under the game directory
ExecutableUnderGameDirectory(pid) == pid \in alive /\ pid \in DirectoryPids

\* hook, check 2: the outcomes of get_process_executable_path(pid) followed by the
\* starts_with test: TRUE when the path was read and lies under the game directory,
\* FALSE when it lies elsewhere or the query returned None (OpenProcess or
\* QueryFullProcessImageNameW failed)
GetProcessExecutablePath(pid) ==
    IF ExecutableUnderGameDirectory(pid) THEN {TRUE, FALSE} ELSE {FALSE}

\* tokio interval, MissedTickBehavior::Skip: the next deadline is the first multiple of
\* the period after the moment the tick was delivered
NextTimeout(timeout, t) ==
    IF t > timeout
    THEN t + MONITOR_CHECK_INTERVAL_SECS - ((t - timeout) % MONITOR_CHECK_INTERVAL_SECS)
    ELSE timeout + MONITOR_CHECK_INTERVAL_SECS

\* (variant: a guard whose drop stores nothing)
HookGuardDropNoStore(signal) == signal

\* value stored into the stop signal by HookGuard::drop
HookGuardDrop(signal) == TRUE

\* (variant: a loop that does not look at the stop signal)
StopRequestedNever(signal) == FALSE

\* the loop's read of the stop signal at the start of a tick
StopRequested(signal) == signal

\* (variant: a tick counts whatever the foreground flag says)
CountsAsActiveAlways(foreground) == TRUE

\* the loop's foreground test: the flag as read from the shared state on this tick
CountsAsActive(foreground) == foreground

\* (variant: a rescan on the first failed check)
RescanDueAtOnce(failures) == failures >= 1

\* the debounce test of the loop
RescanDue(failures) == failures >= MAX_CONSECUTIVE_FAILURES

\* order bookkeeping of a delivered notification
\* (phase: what the order so far allows next; misordered: the first notification that
\* came out of order, "" if none did)
Misorder(n, what) == IF n.misordered = "" THEN [n EXCEPT !.misordered = what] ELSE n

Delivered(n, kind) ==
    CASE kind = "started" ->
            IF n.phase = "none" THEN [n EXCEPT !.phase = "started"]
            ELSE Misorder(n, "started_twice")
      [] kind = "ended" ->
            IF n.phase = "started" THEN [n EXCEPT !.phase = "ended"]
            ELSE Misorder(n, "ended_out_of_order")
      [] OTHER ->
            IF n.phase = "started" THEN n
            ELSE IF n.phase = "none"
                 THEN Misorder(n, kind \o "_before_started")
                 ELSE Misorder(n, kind \o "_after_ended")

\* app_handle.emit: delivered only when the emission succeeded
Emit(n, kind, ok) == IF ok THEN Delivered(n, kind) ELSE n

Observe(n, running) == IF running THEN 0 ELSE IF n < 3 THEN n + 1 ELSE 3

\* (variant: the running total is rounded like the final one)
UpdateMinutesRounded(seconds) == (seconds + 30) \div 60

\* the game-time-update payload: whole minutes
UpdateMinutes(seconds) == seconds \div 60

\* (variant: the half minute is rounded downwards)
FinalMinutesAbove(seconds) ==
    LET total_minutes == seconds \div 60
        remainder_seconds == seconds % 60
    IN  IF remainder_seconds > 30 THEN total_minutes + 1 ELSE total_minutes

\* finalize_session: seconds rounded to the nearest minute, the half minute upwards
FinalMinutes(seconds) ==
    LET total_minutes == seconds \div 60
        remainder_seconds == seconds % 60
    IN  IF remainder_seconds >= 30 THEN total_minutes + 1 ELSE total_minutes

\* no game-session-ended notification was delivered
NoPayload == [delivered |-> FALSE, totalMinutes |-> 0, totalSeconds |-> 0]

\* the payload of the latest time-update of a session that has counted the given seconds,
\* every emission delivered
LastUpdate(seconds) ==
    IF seconds = 0
    THEN NoPayload
    ELSE [delivered |-> TRUE,
          totalMinutes |-> UpdateMinutes(seconds),
          totalSeconds |-> seconds]

\* the locks of the module and the threads that take them
Locks == {"registry", "candidates", "state"}
Threads == {"monitor", "hook", "stop", "query"}

\* no launch_game call was made
LaunchIdle ==
    /\ use_le = FALSE
    /\ use_magpie = FALSE
    /\ lpc = "idle"
    /\ launch_result = "none"
    /\ raw_os_error = 0
    /\ spawned = {}
    /\ elevations = 0
    /\ mpc = "off"

\* the manager is installed outside the game directory, no stop call is under way, no
\* launch of the game was made
NoSession == [pc |-> "idle", game_id |-> GameId, stop_signal |-> FALSE]

NoCall == [active |-> FALSE, game_id |-> GameId, pids |-> {}]

CallsIdle ==
    /\ stop_call = NoCall
    /\ sessions = [s \in Sessions |-> NoSession]
    /\ entries = [g \in GameIds |-> 0]

SideIdle ==
    /\ manager_under_game_dir = FALSE
    /\ CallsIdle

LocksIdle ==
    /\ holders = [l \in Locks |-> {}]
    /\ lock_pc = [t \in Threads |-> [at |-> "start", wants |-> ""]]

\* no thread holds or wants a lock
LocksFree ==
    /\ SideIdle
    /\ LocksIdle

\* ------------------------------------------------------------------------
\* Initial state: the manager is running, nothing is launched
\* ------------------------------------------------------------------------
MonitorIdle ==
    /\ alive = {ManagerPid}
    /\ fg = NoPid
    /\ started = {}
    /\ now = 0
    /\ pc = "idle"
    /\ start_time = 0
    /\ accumulated_seconds = 0
    /\ consecutive_failures = 0
    /\ next_tick = 0
    /\ new_candidate_pids_set = {}
    /\ new_best_pid = NoPid
    /\ mon_result = "none"
    /\ candidate_pids = {}
    /\ best_pid = NoPid
    /\ is_foreground = FALSE
    /\ stop_signal = FALSE
    /\ registry = {}
    /\ hpc = "off"
    /\ last_pid = NoPid
    /\ stop_result = NoResult
    /\ stop_log = NoSnapshot
    /\ notifications = [phase |-> "none", misordered |-> ""]
    /\ failed_in_row = 0
    /\ session_ended = NoPayload
    /\ time_update = NoPayload

\* the tool paths are not configured
Init ==
    /\ MonitorIdle
    /\ LaunchIdle
    /\ le_path = ""
    /\ magpie_path = ""
    /\ LocksFree

\* ------------------------------------------------------------------------
\* Environment
\* ------------------------------------------------------------------------
\* a process of the game's family starts (launcher hand-off, child process)
Spawn(p) ==
    /\ pc # "idle"
    /\ p \in GamePids \ started
    /\ alive' = alive \cup {p}
    /\ started' = started \cup {p}
    /\ ResultTaken
    /\ UNCHANGED <<session_ended, time_update, launchVars, lockVars, sideVars>>
    /\ UNCHANGED <<fg, now, monVars, candidate_pids, best_pid, is_foreground,
                   stop_signal, registry, hookVars, notifications, failed_in_row>>

\* a process of the game's family exits; its window goes with it
Die(p) ==
    /\ p \in alive \cap GamePids
    /\ alive' = alive \ {p}
    /\ fg' = IF fg = p THEN NoPid ELSE fg
    /\ ResultTaken
    /\ UNCHANGED <<session_ended, time_update, launchVars, lockVars, sideVars>>
    /\ UNCHANGED <<started, now, monVars, candidate_pids, best_pid, is_foreground,
                   stop_signal, registry, hookVars, notifications, failed_in_row>>

\* the user brings another window (or none) to the foreground
SetForeground(w) ==
    /\ w \in alive \cup {NoPid}
    /\ w # fg
    /\ fg' = w
    /\ ResultTaken
    /\ UNCHANGED <<session_ended, time_update, launchVars, lockVars, sideVars>>
    /\ UNCHANGED <<alive, started, now, monVars, candidate_pids, best_pid, is_foreground,
                   stop_signal, registry, hookVars, notifications, failed_in_row>>

\* the moments at which a sleep or tick with the given deadline can return
WakeUps(deadline) ==
    LET due == IF deadline > now THEN deadline ELSE now
    IN  {t \in due..(due + MaxLate) : t <= MaxTime}

\* (variant: no start-up sleep)
StartupDeadlineNoSleep(start) == start

\* end of the start-up sleep of a monitor task started at the given time
StartupDeadline(start) == start + STARTUP_GRACE_SECS

\* run_game_monitor returns: its locals (timer, counters) are gone
LocalsDropped ==
    /\ accumulated_seconds' = 0
    /\ consecutive_failures' = 0
    /\ next_tick' = 0
    /\ failed_in_row' = 0

\* ------------------------------------------------------------------------
\* launch_game
\* ------------------------------------------------------------------------
\* what a PathManager getter can return: Err (cache not loaded), Ok("") (no path
\* configured), Ok(path)
PathStates == {"unloaded", "", "set"}

\* Path::new(game_path).parent() and .file_name() are Some
HasParentAndFileName(game_path) == game_path # ""

\* (variant: every failed spawn is retried with elevation)
NeedsElevationAny(e) == e # 0

\* e.raw_os_error() == Some(740)
NeedsElevation(e) == e = ERROR_ELEVATION_REQUIRED

\* return Err(..)
LaunchFailed ==
    /\ lpc' = "returned"
    /\ launch_result' = "err"

\* the options are read, the paths are split, the command is built
LaunchGame(game_path, le, magpie) ==
    /\ lpc = "idle"
    /\ use_le' = le
    /\ use_magpie' = magpie
    /\ IF ~HasParentAndFileName(game_path)
       THEN LaunchFailed
       ELSE IF le /\ le_path \in {"unloaded", ""}
            THEN LaunchFailed
            ELSE lpc' = "spawn" /\ UNCHANGED launch_result
    /\ ResultTaken
    /\ UNCHANGED <<envVars, monVars, candidate_pids, best_pid, is_foreground, stop_signal,
                   registry, hookVars, notifications, failed_in_row, session_ended, time_update,
                   le_path, magpie_path, raw_os_error, spawned, elevations, mpc,
                   lockVars, sideVars>>

\* monitor_game(pid), the background task of the upscaling tool if asked for, Ok(..)
MonitorGame ==
    /\ alive' = alive \cup {InitialPid}
    /\ started' = started \cup {InitialPid}
    /\ pc' = "grace"
    /\ start_time' = now
    /\ accumulated_seconds' = 0
    /\ mpc' = IF use_magpie THEN "sleep" ELSE "off"
    /\ lpc' = "returned"
    /\ launch_result' = "ok"

\* command.spawn() succeeded
Launch ==
    /\ lpc = "spawn"
    /\ pc = "idle"
    /\ spawned' = spawned \cup {"direct"}
    /\ MonitorGame
    /\ ResultTaken
    /\ UNCHANGED <<fg, now, consecutive_failures, next_tick,
                   new_candidate_pids_set, new_best_pid, mon_result, candidate_pids,
                   best_pid, is_foreground, stop_signal, registry, hookVars,
                   notifications, failed_in_row, session_ended, time_update, use_le, use_magpie,
                   le_path, magpie_path, raw_os_error, elevations, lockVars, sideVars>>

\* command.spawn() failed
SpawnFails ==
    /\ lpc = "spawn"
    /\ \E e \in {ERROR_ELEVATION_REQUIRED, ERROR_FILE_NOT_FOUND} :
          /\ raw_os_error' = e
          /\ IF NeedsElevation(e)
             THEN lpc' = "elevate" /\ UNCHANGED launch_result
             ELSE LaunchFailed
    /\ ResultTaken
    /\ UNCHANGED <<envVars, monVars, candidate_pids, best_pid, is_foreground, stop_signal,
                   registry, hookVars, notifications, failed_in_row, session_ended, time_update,
                   use_le, use_magpie, le_path, magpie_path, spawned, elevations, mpc,
                   lockVars, sideVars>>

\* the retry through shell_execute_runas
Elevate ==
    /\ lpc = "elevate"
    /\ pc = "idle"
    /\ IF use_le /\ le_path \in {"unloaded", ""}
       THEN /\ LaunchFailed
            /\ UNCHANGED <<alive, started, pc, start_time, accumulated_seconds, mpc,
                           spawned, elevations>>
       ELSE /\ elevations' = elevations + 1
            /\ \E ok \in BOOLEAN :
                  IF ok
                  THEN /\ spawned' = spawned \cup {"elevated"}
                       /\ MonitorGame
                  ELSE /\ LaunchFailed
                       /\ UNCHANGED <<alive, started, pc, start_time,
                                      accumulated_seconds, mpc, spawned>>
    /\ ResultTaken
    /\ UNCHANGED <<fg, now, consecutive_failures, next_tick,
                   new_candidate_pids_set, new_best_pid, mon_result, candidate_pids,
                   best_pid, is_foreground, stop_signal, registry, hookVars,
                   notifications, failed_in_row, session_ended, time_update, use_le, use_magpie,
                   le_path, magpie_path, raw_os_error, lockVars, sideVars>>

\* start_magpie_for_game, one second after the launch: path, running instance, spawn
MagpieStart ==
    /\ mpc = "sleep"
    /\ IF magpie_path \in {"unloaded", ""}
       THEN mpc' = "failed" /\ UNCHANGED spawned          \* the error is logged
       ELSE \E magpie_was_running \in BOOLEAN :
              IF magpie_was_running
              THEN mpc' = "activate" /\ UNCHANGED spawned
              ELSE \E ok \in BOOLEAN :
                     IF ok
                     THEN mpc' = "activate" /\ spawned' = spawned \cup {"magpie"}
                     ELSE mpc' = "failed" /\ UNCHANGED spawned
    /\ ResultTaken
    /\ UNCHANGED <<envVars, monVars, candidate_pids, best_pid, is_foreground, stop_signal,
                   registry, hookVars, notifications, failed_in_row, session_ended, time_update,
                   use_le, use_magpie, le_path, magpie_path, lpc, launch_result,
                   raw_os_error, elevations, lockVars, sideVars>>

\* one more second, then the hot key; its failure is logged and Ok(()) returned
MagpieActivate ==
    /\ mpc = "activate"
    /\ mpc' = "done"
    /\ ResultTaken
    /\ UNCHANGED <<envVars, monVars, candidate_pids, best_pid, is_foreground, stop_signal,
                   registry, hookVars, notifications, failed_in_row, session_ended, time_update,
                   use_le, use_magpie, le_path, magpie_path, lpc, launch_result,
                   raw_os_error, spawned, elevations, lockVars, sideVars>>

\* PathManager::clear_cache, called when the user changes the configuration
ClearCache ==
    /\ <<le_path, magpie_path>> # <<"unloaded", "unloaded">>
    /\ le_path' = "unloaded"
    /\ magpie_path' = "unloaded"
    /\ ResultTaken
    /\ UNCHANGED <<envVars, monVars, candidate_pids, best_pid, is_foreground, stop_signal,
                   registry, hookVars, notifications, failed_in_row, session_ended, time_update,
                   use_le, use_magpie, lpc, launch_result, raw_os_error, spawned,
                   elevations, mpc, lockVars, sideVars>>

\* ------------------------------------------------------------------------
\* run_game_monitor
\* ------------------------------------------------------------------------
\* after the start-up sleep: initial scan, shared state, registration, guard, hook thread
Seed ==
    /\ pc = "grace"
    /\ now' \in WakeUps(StartupDeadline(start_time))
    /\ candidate_pids' =
          IF InitialPid \notin GetAllCandidatePids /\ IsProcessRunning(InitialPid)
          THEN GetAllCandidatePids \cup {InitialPid}
          ELSE GetAllCandidatePids
    /\ best_pid' = InitialPid
    /\ is_foreground' = FALSE
    /\ stop_signal' = FALSE
    /\ registry' = registry \cup {GameId}
    /\ hpc' = "check"
    /\ last_pid' = NoPid
    /\ pc' = "started"
    /\ ResultTaken
    /\ UNCHANGED <<session_ended, time_update, launchVars, lockVars, sideVars>>
    /\ UNCHANGED <<alive, fg, started, start_time, accumulated_seconds,
                   consecutive_failures, next_tick, new_candidate_pids_set,
                   new_best_pid, mon_result, notifications, failed_in_row>>

\* session-started notification, then the interval timer is created
EmitStarted ==
    /\ pc = "started"
    /\ \E ok \in BOOLEAN :
          /\ notifications' = Emit(notifications, "started", ok)
          /\ IF ok
             THEN /\ consecutive_failures' = 0
                  /\ next_tick' = now
                  /\ pc' = "loop"
                  /\ UNCHANGED <<mon_result, accumulated_seconds, failed_in_row>>
             ELSE /\ mon_result' = "err"
                  /\ pc' = "drop"
                  /\ LocalsDropped
    /\ ResultTaken
    /\ UNCHANGED <<session_ended, time_update, launchVars, lockVars, sideVars>>
    /\ UNCHANGED <<envVars, start_time, new_candidate_pids_set,
                   new_best_pid, candidate_pids, best_pid, is_foreground, stop_signal,
                   registry, hookVars>>

\* one iteration of the loop up to the point where the rescan result is known
Tick ==
    /\ pc = "loop"
    /\ now' \in WakeUps(next_tick)
    /\ IF StopRequested(stop_signal)
       THEN /\ pc' = "unregister"
            /\ next_tick' = NextTimeout(next_tick, now')
            /\ UNCHANGED <<accumulated_seconds, consecutive_failures,
                           new_candidate_pids_set, new_best_pid, mon_result,
                           notifications, failed_in_row, time_update>>
       ELSE LET current_best_pid == best_pid
                foreground == is_foreground
                best_pid_running == IsProcessRunning(current_best_pid)
                Continue == /\ next_tick' = NextTimeout(next_tick, now')
                            /\ failed_in_row' = Observe(failed_in_row, best_pid_running)
            IN  IF ~best_pid_running
                THEN /\ Continue
                     /\ consecutive_failures' = consecutive_failures + 1
                     /\ IF RescanDue(consecutive_failures + 1)
                        THEN IF GetAllCandidatePids = {}
                             THEN /\ pc' = "unregister"
                                  /\ UNCHANGED <<new_candidate_pids_set, new_best_pid>>
                             ELSE /\ new_candidate_pids_set' = GetAllCandidatePids
                                  /\ new_best_pid' \in GetAllCandidatePids
                                  /\ pc' = "rescan_pids"
                        ELSE /\ pc' = "loop"
                             /\ UNCHANGED <<new_candidate_pids_set, new_best_pid>>
                     /\ UNCHANGED <<accumulated_seconds, mon_result, notifications, time_update>>
                ELSE /\ UNCHANGED <<new_candidate_pids_set, new_best_pid>>
                     /\ IF CountsAsActive(foreground)
                        THEN IF (accumulated_seconds + 1) > 0
                                /\ (accumulated_seconds + 1) % TIME_UPDATE_INTERVAL_SECS = 0
                             THEN \E ok \in BOOLEAN :
                                    /\ notifications' = Emit(notifications, "time_update", ok)
                                    /\ time_update' =
                                          IF ok
                                          THEN [delivered |-> TRUE,
                                                totalMinutes |->
                                                    UpdateMinutes(accumulated_seconds + 1),
                                                totalSeconds |-> accumulated_seconds + 1]
                                          ELSE NoPayload
                                    /\ IF ok
                                       THEN /\ Continue
                                            /\ consecutive_failures' = 0
                                            /\ accumulated_seconds' = accumulated_seconds + 1
                                            /\ pc' = "loop"
                                            /\ UNCHANGED mon_result
                                       ELSE /\ LocalsDropped      \* return Err(..)
                                            /\ pc' = "drop"
                                            /\ mon_result' = "err"
                             ELSE /\ Continue
                                  /\ consecutive_failures' = 0
                                  /\ accumulated_seconds' = accumulated_seconds + 1
                                  /\ pc' = "loop"
                                  /\ UNCHANGED <<mon_result, notifications, time_update>>
                        ELSE /\ Continue
                             /\ consecutive_failures' = 0
                             /\ pc' = "loop"
                             /\ UNCHANGED <<accumulated_seconds, mon_result, notifications, time_update>>
    /\ ResultTaken
    /\ UNCHANGED <<session_ended, launchVars, lockVars, sideVars>>
    /\ UNCHANGED <<alive, fg, started, start_time, candidate_pids, best_pid,
                   is_foreground, stop_signal, registry, hookVars>>

\* rescan, first critical section: the shared candidate list is replaced
RescanWritePids ==
    /\ pc = "rescan_pids"
    /\ candidate_pids' = new_candidate_pids_set
    /\ pc' = "rescan_state"
    /\ ResultTaken
    /\ UNCHANGED <<session_ended, time_update, launchVars, lockVars, sideVars>>
    /\ UNCHANGED <<envVars, start_time, accumulated_seconds, consecutive_failures,
                   next_tick, new_candidate_pids_set, new_best_pid,
                   mon_result, best_pid, is_foreground, stop_signal, registry,
                   hookVars, notifications, failed_in_row>>

\* rescan, second critical section, and the process-switched notification
RescanWriteState ==
    /\ pc = "rescan_state"
    /\ best_pid' = new_best_pid
    /\ is_foreground' = FALSE
    /\ consecutive_failures' = 0
    /\ \E ok \in BOOLEAN : notifications' = Emit(notifications, "process_switched", ok)
    /\ new_candidate_pids_set' = {}
    /\ new_best_pid' = NoPid
    /\ pc' = "loop"
    /\ ResultTaken
    /\ UNCHANGED <<session_ended, time_update, launchVars, lockVars, sideVars>>
    /\ UNCHANGED <<envVars, start_time, accumulated_seconds, next_tick, mon_result,
                   candidate_pids, stop_signal, registry, hookVars,
                   failed_in_row>>

\* unregister_session after the loop was left by break
Unregister ==
    /\ pc = "unregister"
    /\ registry' = registry \ {GameId}
    /\ pc' = "finalize"
    /\ ResultTaken
    /\ UNCHANGED <<session_ended, time_update, launchVars, lockVars, sideVars>>
    /\ UNCHANGED <<envVars, start_time, accumulated_seconds, consecutive_failures,
                   next_tick, new_candidate_pids_set, new_best_pid,
                   mon_result, candidate_pids, best_pid, is_foreground, stop_signal,
                   hookVars, notifications, failed_in_row>>

\* finalize_session: the session-ended notification
Finalize ==
    /\ pc = "finalize"
    /\ \E ok \in BOOLEAN :
          /\ notifications' = Emit(notifications, "ended", ok)
          /\ session_ended' =
                IF ok
                THEN [delivered |-> TRUE,
                      totalMinutes |-> FinalMinutes(accumulated_seconds),
                      totalSeconds |-> accumulated_seconds]
                ELSE session_ended
          /\ mon_result' = IF ok THEN "ok" ELSE "err"
    /\ pc' = "drop"
    /\ LocalsDropped
    /\ time_update' = NoPayload
    /\ ResultTaken
    /\ UNCHANGED <<launchVars, lockVars, sideVars>>
    /\ UNCHANGED <<envVars, start_time, new_candidate_pids_set, new_best_pid,
                   candidate_pids, best_pid, is_foreground, stop_signal, registry,
                   hookVars>>

\* run_game_monitor returns: _hook_guard is dropped
GuardDrop ==
    /\ pc = "drop"
    /\ stop_signal' = HookGuardDrop(stop_signal)
    /\ pc' = "done"
    /\ ResultTaken
    /\ UNCHANGED <<session_ended, time_update, launchVars, lockVars, sideVars>>
    /\ UNCHANGED <<envVars, start_time, accumulated_seconds, consecutive_failures,
                   next_tick, new_candidate_pids_set, new_best_pid,
                   mon_result, candidate_pids, best_pid, is_foreground, registry,
                   hookVars, notifications, failed_in_row>>

\* ------------------------------------------------------------------------
\* start_foreground_hook: the thread's loop
\* ------------------------------------------------------------------------
\* while !stop_signal.load(): the loop condition
HookCheck ==
    /\ hpc = "check"
    /\ IF stop_signal
       THEN hpc' = "exited" /\ last_pid' = NoPid      \* the thread and its locals end
       ELSE hpc' = "poll" /\ UNCHANGED last_pid
    /\ ResultTaken
    /\ UNCHANGED <<session_ended, time_update, launchVars, lockVars, sideVars>>
    /\ UNCHANGED <<envVars, monVars, candidate_pids, best_pid, is_foreground, stop_signal,
                   registry, notifications, failed_in_row>>

\* after the 200 ms sleep: foreground window, its PID, the look-up in the candidate list
\* and the classification of an unknown PID
HookPoll ==
    /\ hpc = "poll"
    /\ IF fg = NoPid
       THEN /\ is_foreground' = FALSE
            /\ hpc' = "check"
            /\ UNCHANGED last_pid
       ELSE \E new_pid \in {fg, NoPid} :       \* GetWindowThreadProcessId may leave 0
              IF new_pid = NoPid \/ new_pid = last_pid
              THEN /\ hpc' = "check"
                   /\ UNCHANGED <<is_foreground, last_pid>>
              ELSE /\ last_pid' = new_pid
                   /\ IF new_pid \in candidate_pids
                      THEN hpc' = "known" /\ UNCHANGED is_foreground
                      ELSE \E under_game_directory \in GetProcessExecutablePath(new_pid) :
                             IF under_game_directory
                             THEN hpc' = "escape_insert" /\ UNCHANGED is_foreground
                             ELSE hpc' = "check" /\ is_foreground' = FALSE
    /\ ResultTaken
    /\ UNCHANGED <<session_ended, time_update, launchVars, lockVars, sideVars>>
    /\ UNCHANGED <<envVars, monVars, candidate_pids, best_pid, stop_signal, registry,
                   notifications, failed_in_row>>

\* the foreground PID is a known candidate: state update and notification
HookKnown ==
    /\ hpc = "known"
    /\ is_foreground' = TRUE
    /\ best_pid' = last_pid
    /\ IF best_pid # last_pid
       THEN \E ok \in BOOLEAN : notifications' = Emit(notifications, "process_switched", ok)
       ELSE UNCHANGED notifications
    /\ hpc' = "check"
    /\ ResultTaken
    /\ UNCHANGED <<session_ended, time_update, launchVars, lockVars, sideVars>>
    /\ UNCHANGED <<envVars, monVars, candidate_pids, stop_signal, registry, last_pid,
                   failed_in_row>>

\* escape detection, first critical section: the PID joins the candidate list
HookEscapeInsert ==
    /\ hpc = "escape_insert"
    /\ candidate_pids' = candidate_pids \cup {last_pid}
    /\ hpc' = "escape_state"
    /\ ResultTaken
    /\ UNCHANGED <<session_ended, time_update, launchVars, lockVars, sideVars>>
    /\ UNCHANGED <<envVars, monVars, best_pid, is_foreground, stop_signal, registry,
                   last_pid, notifications, failed_in_row>>

\* escape detection, second critical section and notification
HookEscapeState ==
    /\ hpc = "escape_state"
    /\ is_foreground' = TRUE
    /\ best_pid' = last_pid
    /\ \E ok \in BOOLEAN : notifications' = Emit(notifications, "process_switched", ok)
    /\ hpc' = "check"
    /\ ResultTaken
    /\ UNCHANGED <<session_ended, time_update, launchVars, lockVars, sideVars>>
    /\ UNCHANGED <<envVars, monVars, candidate_pids, stop_signal, registry, last_pid,
                   failed_in_row>>

\* ------------------------------------------------------------------------
\* stop_game_session
\* ------------------------------------------------------------------------
\* (variant: a look-up that ignores the game_id)
StopLookupAny(game_id) == registry # {}

\* the registry look-up of the call
StopLookup(game_id) == game_id \in registry

\* the orders in which the copied HashSet can be iterated
Orders(S) == {o \in [1..Cardinality(S) -> S] : \A i, j \in 1..Cardinality(S) : o[i] = o[j] => i = j}

\* (variant: the loop gives up at the first terminate_process that fails)
RECURSIVE TerminateLoopAbort(_, _, _, _)
TerminateLoopAbort(pids, denied, log, count) ==
    IF pids = <<>>
    THEN [log |-> log, count |-> count]
    ELSE LET pid == Head(pids) IN
         IF IsProcessRunning(pid)
         THEN IF pid \notin denied
              THEN TerminateLoopAbort(Tail(pids), denied, [log EXCEPT ![pid] = "killed"], count + 1)
              ELSE [log |-> [log EXCEPT ![pid] = "failed"], count |-> count]
         ELSE TerminateLoopAbort(Tail(pids), denied, [log EXCEPT ![pid] = "dead"], count)

\* the termination loop over the copied PIDs: a PID that is not running is passed over,
\* a successful terminate_process is counted, a failed one is logged and the loop goes on
RECURSIVE TerminateLoop(_, _, _, _)
TerminateLoop(pids, denied, log, count) ==
    IF pids = <<>>
    THEN [log |-> log, count |-> count]
    ELSE LET pid == Head(pids) IN
         IF IsProcessRunning(pid)
         THEN IF pid \notin denied
              THEN TerminateLoop(Tail(pids), denied, [log EXCEPT ![pid] = "killed"], count + 1)
              ELSE TerminateLoop(Tail(pids), denied, [log EXCEPT ![pid] = "failed"], count)
         ELSE TerminateLoop(Tail(pids), denied, [log EXCEPT ![pid] = "dead"], count)

\* a stop call arrives while the horizon leaves the loop a tick to read the signal, or
\* after the loop was left
StopInTime == now < MaxTime \/ pc \in {"unregister", "finalize", "drop", "done"}

\* the whole call: look-up, stop signal, copy of the candidate list, termination loop
StopGameSession(game_id) ==
    /\ StopInTime
    /\ IF ~StopLookup(game_id)
       THEN /\ stop_result' = [game_id |-> game_id, status |-> "no_session",
                               terminated_count |-> 0]
            /\ UNCHANGED <<stop_signal, stop_log, alive, fg>>
       ELSE /\ stop_signal' = TRUE
            /\ \E r \in {TerminateLoop(pids, denied, NoSnapshot, 0) :
                            pids \in Orders(candidate_pids),
                            denied \in SUBSET (candidate_pids \cap alive)} :
                  LET killed == {p \in Pids : r.log[p] = "killed"}
                  IN  /\ stop_log' = r.log
                      /\ stop_result' = [game_id |-> game_id, status |-> "ok",
                                         terminated_count |-> r.count]
                      /\ alive' = alive \ killed
                      /\ fg' = IF fg \in killed THEN NoPid ELSE fg
    /\ UNCHANGED <<started, now, monVars, candidate_pids, best_pid, is_foreground, registry,
                   hookVars, notifications, failed_in_row>>
    /\ UNCHANGED <<session_ended, time_update, launchVars, lockVars, sideVars>>

\* the call up to the release of the registry lock: look-up, stop signal, copy of the
\* candidate list
StopSnapshot(game_id) ==
    /\ StopInTime
    /\ ~stop_call.active
    /\ IF ~StopLookup(game_id)
       THEN /\ stop_result' = [game_id |-> game_id, status |-> "no_session",
                               terminated_count |-> 0]
            /\ stop_log' = NoSnapshot
            /\ UNCHANGED <<stop_signal, stop_call>>
       ELSE /\ stop_signal' = TRUE
            /\ stop_call' = [active |-> TRUE, game_id |-> game_id, pids |-> candidate_pids]
            /\ ResultTaken
    /\ UNCHANGED <<envVars, monVars, candidate_pids, best_pid, is_foreground, registry,
                   hookVars, notifications, failed_in_row>>
    /\ UNCHANGED <<session_ended, time_update, launchVars, lockVars,
                   manager_under_game_dir, sessions, entries>>

\* the rest of the call: the termination loop over the copy, and the return
StopTerminate ==
    /\ stop_call.active
    /\ \E r \in {TerminateLoop(pids, denied, NoSnapshot, 0) :
                    pids \in Orders(stop_call.pids),
                    denied \in SUBSET (stop_call.pids \cap alive)} :
          LET killed == {p \in Pids : r.log[p] = "killed"}
          IN  /\ stop_log' = r.log
              /\ stop_result' = [game_id |-> stop_call.game_id, status |-> "ok",
                                 terminated_count |-> r.count]
              /\ alive' = alive \ killed
              /\ fg' = IF fg \in killed THEN NoPid ELSE fg
    /\ stop_call' = NoCall
    /\ UNCHANGED <<started, now, monVars, candidate_pids, best_pid, is_foreground,
                   stop_signal, registry, hookVars, notifications, failed_in_row>>
    /\ UNCHANGED <<session_ended, time_update, launchVars, lockVars,
                   manager_under_game_dir, sessions, entries>>

\* ------------------------------------------------------------------------
\* The locks: ACTIVE_SESSIONS ("registry"), shared_candidate_pids ("candidates") and
\* monitor_state ("state"), all parking_lot::RwLock. A thread is described by the lock
\* operations of its code: Acquire(from, lock, mode, to, when) creates a guard,
\* Release(from, lock, to, when) drops it, Return(from, to) leaves the function
\* (when: "found" / "missing" = the session is / is not in the registry, "hooked" = the
\* monitor task has started the hook thread and has not returned)
\* ------------------------------------------------------------------------
Acquire(from, lock, mode, to, when) ==
    [from |-> from, op |-> "acquire", lock |-> lock, mode |-> mode, to |-> to, when |-> when]

Release(from, lock, to, when) ==
    [from |-> from, op |-> "release", lock |-> lock, mode |-> "", to |-> to, when |-> when]

Return(from, to) ==
    [from |-> from, op |-> "return", lock |-> "", mode |-> "", to |-> to, when |-> "always"]

\* (variant: the session is unregistered inside the critical section of the rescan)
MonitorEdgesNested ==
    { Acquire("start", "registry", "write", "m121", "always"),
      Release("m121", "registry", "init", "always"),
      Acquire("init", "state", "read", "m330", "always"),
      Release("m330", "state", "loop", "always"),
      Acquire("loop", "state", "read", "m359", "always"),
      Release("m359", "state", "tick", "always"),
      Acquire("tick", "state", "read", "m359", "always"),
      Acquire("tick", "candidates", "write", "m391", "always"),
      Acquire("m391", "registry", "write", "m126", "always"),
      Release("m126", "registry", "m391b", "always"),
      Release("m391b", "candidates", "end", "always") }

\* run_game_monitor: register_session (308 -> 121), the read of best_pid (330), the read of
\* the state on each tick (359), the two critical sections of the rescan (391, 397),
\* unregister_session (452 -> 126), the error returns (338, 445)
MonitorEdges ==
    { Acquire("start", "registry", "write", "m121", "always"),
      Release("m121", "registry", "init", "always"),
      Acquire("init", "state", "read", "m330", "always"),
      Release("m330", "state", "loop", "always"),
      Return("loop", "end"),
      Acquire("loop", "state", "read", "m359", "always"),
      Acquire("loop", "registry", "write", "m126", "always"),
      Release("m359", "state", "tick", "always"),
      Return("tick", "end"),
      Acquire("tick", "state", "read", "m359", "always"),
      Acquire("tick", "registry", "write", "m126", "always"),
      Acquire("tick", "candidates", "write", "m391", "always"),
      Release("m391", "candidates", "rescan", "always"),
      Acquire("rescan", "state", "write", "m397", "always"),
      Release("m397", "state", "loop", "always"),
      Release("m126", "registry", "end", "always") }

\* start_foreground_hook, one iteration: no window (564); the look-up (583) followed by
\* the known candidate (588), the escape (625, 629) or a foreign window (646)
HookEdges ==
    { Acquire("start", "state", "write", "h564", "hooked"),
      Release("h564", "state", "start", "always"),
      Acquire("start", "candidates", "read", "h583", "hooked"),
      Release("h583", "candidates", "looked", "always"),
      Return("looked", "start"),
      Acquire("looked", "state", "write", "h588", "always"),
      Release("h588", "state", "start", "always"),
      Acquire("looked", "candidates", "write", "h625", "always"),
      Release("h625", "candidates", "inserted", "always"),
      Acquire("inserted", "state", "write", "h629", "always"),
      Release("h629", "state", "start", "always"),
      Acquire("looked", "state", "write", "h646", "always"),
      Release("h646", "state", "start", "always") }

\* stop_game_session: the registry guard `sessions` (151) lives until drop(sessions)
\* (163) or the early return (154); the guard of the candidate list (160) is a temporary
\* of the statement that copies the PIDs
StopEdges ==
    { Acquire("start", "registry", "read", "s151", "always"),
      Release("s151", "registry", "start", "missing"),
      Acquire("s151", "candidates", "read", "s160", "found"),
      Release("s160", "candidates", "s163", "always"),
      Release("s163", "registry", "start", "always") }

\* get_game_candidate_pids: the registry guard (136) lives to the end of the function,
\* the guard of the candidate list (139) to the end of the closure
QueryEdges ==
    { Acquire("start", "registry", "read", "q136", "always"),
      Release("q136", "registry", "start", "missing"),
      Acquire("q136", "candidates", "read", "q139", "found"),
      Release("q139", "candidates", "q140", "always"),
      Release("q140", "registry", "start", "always") }

Edges(t) ==
    CASE t = "monitor" -> MonitorEdges
      [] t = "hook" -> HookEdges
      [] t = "stop" -> StopEdges
      [] t = "query" -> QueryEdges

\* the condition under which the code takes the edge
EdgeEnabled(e) ==
    CASE e.when = "found" -> GameId \in registry
      [] e.when = "missing" -> GameId \notin registry
      [] e.when = "hooked" -> lock_pc["monitor"].at \notin {"start", "m121", "end"}
      [] OTHER -> TRUE

\* the locks on which the thread has a guard
Held(t) == {l \in Locks : \E m \in {"read", "write"} : <<t, m>> \in holders[l]}

\* the acquire the thread is blocked in, if any
Pending(t) ==
    {e \in Edges(t) : e.op = "acquire" /\ e.from = lock_pc[t].at /\ e.to = lock_pc[t].wants}

\* RwLock: a write guard excludes every other guard, a read guard excludes write guards
Grantable(lock, mode) ==
    IF mode = "write"
    THEN holders[lock] = {}
    ELSE \A h \in holders[lock] : h[2] # "write"

\* the thread calls read() or write()
LockRequest(t) ==
    /\ lock_pc[t].wants = ""
    /\ \E e \in Edges(t) :
          /\ e.op = "acquire"
          /\ e.from = lock_pc[t].at
          /\ EdgeEnabled(e)
          /\ lock_pc' = [lock_pc EXCEPT ![t].wants = e.to]
    /\ UNCHANGED <<holders, registry>>
    /\ UNCHANGED <<envVars, monVars, candidate_pids, best_pid, is_foreground, stop_signal,
                   hookVars, stopVars, notifications, failed_in_row, session_ended, time_update,
                   launchVars, sideVars>>

\* the call returns with the guard
LockGrant(t) ==
    /\ \E e \in Pending(t) :
          /\ Grantable(e.lock, e.mode)
          /\ holders' = [holders EXCEPT ![e.lock] = @ \cup {<<t, e.mode>>}]
          /\ lock_pc' = [lock_pc EXCEPT ![t] = [at |-> e.to, wants |-> ""]]
    /\ UNCHANGED registry
    /\ UNCHANGED <<envVars, monVars, candidate_pids, best_pid, is_foreground, stop_signal,
                   hookVars, stopVars, notifications, failed_in_row, session_ended, time_update,
                   launchVars, sideVars>>

\* a guard is dropped; the guards of register_session and unregister_session have
\* inserted and removed the session
LockRelease(t) ==
    /\ lock_pc[t].wants = ""
    /\ \E e \in Edges(t) :
          /\ e.op = "release"
          /\ e.from = lock_pc[t].at
          /\ EdgeEnabled(e)
          /\ holders' = [holders EXCEPT ![e.lock] = {h \in @ : h[1] # t}]
          /\ lock_pc' = [lock_pc EXCEPT ![t].at = e.to]
          /\ registry' = CASE e.from = "m121" -> registry \cup {GameId}
                            [] e.from = "m126" -> registry \ {GameId}
                            [] OTHER -> registry
    /\ UNCHANGED <<envVars, monVars, candidate_pids, best_pid, is_foreground, stop_signal,
                   hookVars, stopVars, notifications, failed_in_row, session_ended, time_update,
                   launchVars, sideVars>>

\* the function or the iteration ends without a further lock operation
LockReturn(t) ==
    /\ lock_pc[t].wants = ""
    /\ \E e \in Edges(t) :
          /\ e.op = "return"
          /\ e.from = lock_pc[t].at
          /\ lock_pc' = [lock_pc EXCEPT ![t].at = e.to]
    /\ UNCHANGED <<holders, registry>>
    /\ UNCHANGED <<envVars, monVars, candidate_pids, best_pid, is_foreground, stop_signal,
                   hookVars, stopVars, notifications, failed_in_row, session_ended, time_update,
                   launchVars, sideVars>>

LockNext ==
    \/ \E t \in Threads : LockRequest(t)
    \/ \E t \in Threads : LockGrant(t)
    \/ \E t \in Threads : LockRelease(t)
    \/ \E t \in Threads : LockReturn(t)

LockSpec == Init /\ [][LockNext]_vars

\* ------------------------------------------------------------------------
\* Specification
\* ------------------------------------------------------------------------
Next ==
    \/ \E p \in LateStarters : Spawn(p)
    \/ \E p \in GamePids : Die(p)
    \/ \E w \in Pids \cup {NoPid} : SetForeground(w)
    \/ LaunchGame("game.exe", FALSE, FALSE)
    \/ Launch
    \/ Seed
    \/ EmitStarted
    \/ Tick
    \/ RescanWritePids
    \/ RescanWriteState
    \/ Unregister
    \/ Finalize
    \/ GuardDrop
    \/ HookCheck
    \/ HookPoll
    \/ HookKnown
    \/ HookEscapeInsert
    \/ HookEscapeState
    \/ \E g \in GameIds : StopGameSession(g)

Spec == Init /\ [][Next]_vars

\* ------------------------------------------------------------------------
\* The end of a session, for every accumulated time up to MaxSeconds: the game was in
\* the foreground for accumulated_seconds ticks, then it exited, three ticks failed,
\* the rescan found nothing and the session was unregistered
\* ------------------------------------------------------------------------
RoundInit ==
    /\ alive = {ManagerPid}
    /\ fg = NoPid
    /\ started = {InitialPid}
    /\ accumulated_seconds \in 0..MaxSeconds
    /\ start_time = 0
    /\ now = STARTUP_GRACE_SECS + accumulated_seconds + MAX_CONSECUTIVE_FAILURES - 1
    /\ next_tick = now + MONITOR_CHECK_INTERVAL_SECS
    /\ pc = "finalize"
    /\ consecutive_failures = MAX_CONSECUTIVE_FAILURES
    /\ new_candidate_pids_set = {}
    /\ new_best_pid = NoPid
    /\ mon_result = "none"
    /\ candidate_pids = {InitialPid}
    /\ best_pid = InitialPid
    /\ is_foreground = FALSE
    /\ stop_signal = FALSE
    /\ registry = {}
    /\ hpc = "check"
    /\ last_pid = InitialPid
    /\ stop_result = NoResult
    /\ stop_log = NoSnapshot
    /\ notifications = [phase |-> "started", misordered |-> ""]
    /\ failed_in_row = 3
    /\ session_ended = NoPayload
    /\ time_update = LastUpdate(accumulated_seconds)
    /\ use_le = FALSE
    /\ use_magpie = FALSE
    /\ le_path = ""
    /\ magpie_path = ""
    /\ lpc = "returned"
    /\ launch_result = "ok"
    /\ raw_os_error = 0
    /\ spawned = {"direct"}
    /\ elevations = 0
    /\ mpc = "off"
    /\ LocksFree

RoundNext ==
    \/ Finalize
    \/ GuardDrop
    \/ HookCheck
    \/ HookPoll

RoundSpec == RoundInit /\ [][RoundNext]_vars

\* ------------------------------------------------------------------------
\* A session of a game with three processes: all three were running at the initial scan,
\* the session-started notification was delivered and the first tick is due
\* ------------------------------------------------------------------------
RescanInit ==
    /\ alive = GamePids \cup {ManagerPid}
    /\ fg = NoPid
    /\ started = GamePids
    /\ now = STARTUP_GRACE_SECS
    /\ pc = "loop"
    /\ start_time = 0
    /\ accumulated_seconds = 0
    /\ consecutive_failures = 0
    /\ next_tick = now
    /\ new_candidate_pids_set = {}
    /\ new_best_pid = NoPid
    /\ mon_result = "none"
    /\ candidate_pids = GamePids
    /\ best_pid = InitialPid
    /\ is_foreground = FALSE
    /\ stop_signal = FALSE
    /\ registry = {GameId}
    /\ hpc = "check"
    /\ last_pid = NoPid
    /\ stop_result = NoResult
    /\ stop_log = NoSnapshot
    /\ notifications = [phase |-> "started", misordered |-> ""]
    /\ failed_in_row = 0
    /\ session_ended = NoPayload
    /\ time_update = NoPayload
    /\ use_le = FALSE
    /\ use_magpie = FALSE
    /\ le_path = ""
    /\ magpie_path = ""
    /\ lpc = "returned"
    /\ launch_result = "ok"
    /\ raw_os_error = 0
    /\ spawned = {"direct"}
    /\ elevations = 0
    /\ mpc = "off"
    /\ LocksFree

RescanNext ==
    \/ \E p \in GamePids : Die(p)
    \/ \E w \in Pids \cup {NoPid} : SetForeground(w)
    \/ Tick
    \/ RescanWritePids
    \/ RescanWriteState
    \/ Unregister
    \/ Finalize
    \/ GuardDrop
    \/ HookCheck
    \/ HookPoll
    \/ HookKnown

RescanSpec == RescanInit /\ [][RescanNext]_vars

\* ------------------------------------------------------------------------
\* The last seconds of a session, for every accumulated time up to MaxSeconds: the game
\* has counted accumulated_seconds ticks, the user had switched to another window and is
\* back on the game; the clock is read from the moment of the initial state
\* ------------------------------------------------------------------------
TailInit ==
    /\ alive = {InitialPid, ManagerPid}
    /\ fg = InitialPid
    /\ started = {InitialPid}
    /\ accumulated_seconds \in 0..MaxSeconds
    /\ now = 0
    /\ start_time = now - STARTUP_GRACE_SECS - accumulated_seconds
    /\ next_tick = now + MONITOR_CHECK_INTERVAL_SECS
    /\ pc = "loop"
    /\ consecutive_failures = 0
    /\ new_candidate_pids_set = {}
    /\ new_best_pid = NoPid
    /\ mon_result = "none"
    /\ candidate_pids = {InitialPid}
    /\ best_pid = InitialPid
    /\ is_foreground = FALSE
    /\ stop_signal = FALSE
    /\ registry = {GameId}
    /\ hpc = "check"
    /\ last_pid = ManagerPid
    /\ stop_result = NoResult
    /\ stop_log = NoSnapshot
    /\ notifications = [phase |-> "started", misordered |-> ""]
    /\ failed_in_row = 0
    /\ session_ended = NoPayload
    /\ time_update = LastUpdate(accumulated_seconds)
    /\ use_le = FALSE
    /\ use_magpie = FALSE
    /\ le_path = ""
    /\ magpie_path = ""
    /\ lpc = "returned"
    /\ launch_result = "ok"
    /\ raw_os_error = 0
    /\ spawned = {"direct"}
    /\ elevations = 0
    /\ mpc = "off"
    /\ LocksFree

TailNext ==
    \/ Die(InitialPid)
    \/ Tick
    \/ Unregister
    \/ Finalize
    \/ GuardDrop
    \/ HookCheck
    \/ HookPoll
    \/ HookKnown
    \/ StopGameSession(GameId)

TailSpec == TailInit /\ [][TailNext]_vars

\* ------------------------------------------------------------------------
\* The manager installed in the game's own directory: its executable path starts with
\* the game directory like the game's; the manager runs as long as the program runs
\* ------------------------------------------------------------------------
SharedDirInit ==
    /\ MonitorIdle
    /\ LaunchIdle
    /\ le_path = ""
    /\ magpie_path = ""
    /\ manager_under_game_dir = TRUE
    /\ CallsIdle
    /\ LocksIdle

\* the steps of a game of one process, as long as the manager process exists
SharedDirNext ==
    \/ IsProcessRunning(ManagerPid) /\ \E p \in GamePids : Die(p)
    \/ IsProcessRunning(ManagerPid) /\ \E w \in Pids \cup {NoPid} : SetForeground(w)
    \/ IsProcessRunning(ManagerPid) /\ LaunchGame("game.exe", FALSE, FALSE)
    \/ IsProcessRunning(ManagerPid) /\ Launch
    \/ IsProcessRunning(ManagerPid) /\ Seed
    \/ IsProcessRunning(ManagerPid) /\ EmitStarted
    \/ IsProcessRunning(ManagerPid) /\ Tick
    \/ IsProcessRunning(ManagerPid) /\ Unregister
    \/ IsProcessRunning(ManagerPid) /\ Finalize
    \/ IsProcessRunning(ManagerPid) /\ GuardDrop
    \/ IsProcessRunning(ManagerPid) /\ HookCheck
    \/ IsProcessRunning(ManagerPid) /\ HookPoll
    \/ IsProcessRunning(ManagerPid) /\ HookKnown
    \/ IsProcessRunning(ManagerPid) /\ HookEscapeInsert
    \/ IsProcessRunning(ManagerPid) /\ HookEscapeState
    \/ IsProcessRunning(ManagerPid) /\ \E g \in GameIds : StopGameSession(g)

SharedDirSpec == SharedDirInit /\ [][SharedDirNext]_vars

\* ------------------------------------------------------------------------
\* A stop call in two steps beside the hook thread: the session has started with the
\* launched process as its only candidate, and a second process of the game directory
\* has started since the initial scan
\* ------------------------------------------------------------------------
EscapedInit ==
    /\ alive = {InitialPid, InitialPid + 1, ManagerPid}
    /\ fg = NoPid
    /\ started = {InitialPid, InitialPid + 1}
    /\ now = STARTUP_GRACE_SECS
    /\ pc = "loop"
    /\ start_time = 0
    /\ accumulated_seconds = 0
    /\ consecutive_failures = 0
    /\ next_tick = now
    /\ new_candidate_pids_set = {}
    /\ new_best_pid = NoPid
    /\ mon_result = "none"
    /\ candidate_pids = {InitialPid}
    /\ best_pid = InitialPid
    /\ is_foreground = FALSE
    /\ stop_signal = FALSE
    /\ registry = {GameId}
    /\ hpc = "check"
    /\ last_pid = NoPid
    /\ stop_result = NoResult
    /\ stop_log = NoSnapshot
    /\ notifications = [phase |-> "started", misordered |-> ""]
    /\ failed_in_row = 0
    /\ session_ended = NoPayload
    /\ time_update = NoPayload
    /\ use_le = FALSE
    /\ use_magpie = FALSE
    /\ le_path = ""
    /\ magpie_path = ""
    /\ lpc = "returned"
    /\ launch_result = "ok"
    /\ raw_os_error = 0
    /\ spawned = {"direct"}
    /\ elevations = 0
    /\ mpc = "off"
    /\ LocksFree

EscapedNext ==
    \/ \E w \in Pids \cup {NoPid} : SetForeground(w)
    \/ Tick
    \/ Unregister
    \/ Finalize
    \/ GuardDrop
    \/ HookCheck
    \/ HookPoll
    \/ HookKnown
    \/ HookEscapeInsert
    \/ HookEscapeState
    \/ \E g \in GameIds : StopSnapshot(g)
    \/ StopTerminate

EscapedSpec == EscapedInit /\ [][EscapedNext]_vars

\* ------------------------------------------------------------------------
\* Two monitor tasks and the registry: sessions[s] is the task of the s-th call of
\* monitor_game (its position, its game_id and its own stop signal), entries[g] the task
\* whose ActiveSession is stored under g in ACTIVE_SESSIONS (0: no entry)
\* ------------------------------------------------------------------------
sessionFrame == <<envVars, monVars, candidate_pids, best_pid, is_foreground, stop_signal,
                  registry, hookVars, stop_log, notifications, failed_in_row,
                  session_ended, time_update, launchVars, lockVars,
                  manager_under_game_dir, stop_call>>

\* monitor_game spawns the task; the task sleeps and scans
SessionLaunch(s, game_id) ==
    /\ sessions[s].pc = "idle"
    /\ sessions' = [sessions EXCEPT ![s] = [pc |-> "starting", game_id |-> game_id,
                                            stop_signal |-> FALSE]]
    /\ stop_result' = NoResult
    /\ UNCHANGED <<entries, sessionFrame>>

\* register_session: HashMap::insert under the game_id
SessionRegister(s) ==
    /\ sessions[s].pc = "starting"
    /\ entries' = [entries EXCEPT ![sessions[s].game_id] = s]
    /\ sessions' = [sessions EXCEPT ![s].pc = "started"]
    /\ stop_result' = NoResult
    /\ UNCHANGED sessionFrame

\* the session-started emission: the loop begins, or the task returns the error
SessionStarted(s) ==
    /\ sessions[s].pc = "started"
    /\ \E ok \in BOOLEAN :
          sessions' = [sessions EXCEPT ![s].pc = IF ok THEN "loop" ELSE "drop"]
    /\ stop_result' = NoResult
    /\ UNCHANGED <<entries, sessionFrame>>

\* the loop ends: by the stop signal, by the exit of the game, or by a failed emission
SessionExit(s, how) ==
    /\ sessions[s].pc = "loop"
    /\ how = "stop" => sessions[s].stop_signal
    /\ sessions' = [sessions EXCEPT ![s].pc = IF how = "emit_error" THEN "drop"
                                                                    ELSE "unregister"]
    /\ stop_result' = NoResult
    /\ UNCHANGED <<entries, sessionFrame>>

\* unregister_session: HashMap::remove of the game_id, then finalize_session
SessionUnregister(s) ==
    /\ sessions[s].pc = "unregister"
    /\ entries' = [entries EXCEPT ![sessions[s].game_id] = 0]
    /\ sessions' = [sessions EXCEPT ![s].pc = "drop"]
    /\ stop_result' = NoResult
    /\ UNCHANGED sessionFrame

\* the task returns: HookGuard::drop stores the stop signal
SessionDrop(s) ==
    /\ sessions[s].pc = "drop"
    /\ sessions' = [sessions EXCEPT ![s].pc = "done",
                                    ![s].stop_signal = HookGuardDrop(sessions[s].stop_signal)]
    /\ stop_result' = NoResult
    /\ UNCHANGED <<entries, sessionFrame>>

\* stop_game_session: the look-up and the store into the entry's stop signal
SessionStop(game_id) ==
    /\ IF entries[game_id] = 0
       THEN /\ stop_result' = [game_id |-> game_id, status |-> "no_session",
                               terminated_count |-> 0]
            /\ UNCHANGED sessions
       ELSE /\ sessions' = [sessions EXCEPT ![entries[game_id]].stop_signal = TRUE]
            /\ stop_result' = [game_id |-> game_id, status |-> "ok",
                               terminated_count |-> 0]
    /\ UNCHANGED <<entries, sessionFrame>>

SessionsNext ==
    \/ \E s \in Sessions, g \in GameIds : SessionLaunch(s, g)
    \/ \E s \in Sessions : SessionRegister(s)
    \/ \E s \in Sessions : SessionStarted(s)
    \/ \E s \in Sessions, how \in {"stop", "game_over", "emit_error"} : SessionExit(s, how)
    \/ \E s \in Sessions : SessionUnregister(s)
    \/ \E s \in Sessions : SessionDrop(s)
    \/ \E g \in GameIds : SessionStop(g)

SessionsSpec == Init /\ [][SessionsNext]_vars

\* ------------------------------------------------------------------------
\* Linux: the game runs in a systemd user scope; no hook thread, no registry. The
\* processes of the scope are the running PIDs of the game; every query of the service
\* manager can fail
\* ------------------------------------------------------------------------
\* the unit is active as long as a process of the scope runs
ScopeActive == alive \cap GamePids # {}

\* is_game_running: the unit's active state, false when any step of the query fails
IsGameRunning == IF ScopeActive THEN {TRUE, FALSE} ELSE {FALSE}

\* get_all_candidate_pids (Linux): the PIDs of the scope without the manager, the empty
\* list when the query fails (unwrap_or_default)
GetAllCandidatePidsByScope == {{p \in alive \cap GamePids : p # ManagerPid}, {}}

NotFound == [panics |-> FALSE, found |-> FALSE, pid |-> NoPid]

\* (variant: the foreground check as its comment describes it, always None)
CheckAnyForegroundNone(pids) == {NotFound}

\* check_any_foreground (Linux): Some(pids[0]); the index panics on an empty slice. The
\* order of the list is the order of the service manager's answer
CheckAnyForeground(pids) ==
    IF pids = {}
    THEN {[panics |-> TRUE, found |-> FALSE, pid |-> NoPid]}
    ELSE {[panics |-> FALSE, found |-> TRUE, pid |-> p] : p \in pids}

\* check_any_has_window (Linux): None
CheckAnyHasWindow(pids) == {NotFound}

\* select_best_from_candidates: foreground, else window, else the first, else None
SelectBestFromCandidates(pids) ==
    UNION {IF r.panics \/ r.found
           THEN {r}
           ELSE UNION {IF w.found
                       THEN {w}
                       ELSE IF pids # {}
                            THEN {[panics |-> FALSE, found |-> TRUE, pid |-> p] : p \in pids}
                            ELSE {NotFound} : w \in CheckAnyHasWindow(pids)}
             : r \in CheckAnyForeground(pids)}

\* the latest moment at which the model lets a tick of the Linux loop happen
LinuxHorizon ==
    start_time + MONITOR_CHECK_INTERVAL_SECS * (LINUX_STARTUP_TICKS + LINUX_SETTLE_TICKS)
      + MaxTime

\* the task ends before the loop or by an error: its locals are gone
LinuxEnds(result) ==
    /\ mon_result' = result
    /\ pc' = "drop"
    /\ LocalsDropped

LinuxInit ==
    /\ alive = {InitialPid, ManagerPid}
    /\ fg = NoPid
    /\ started = {InitialPid}
    /\ now = 0
    /\ pc = "lx_sleep"
    /\ start_time = 0
    /\ accumulated_seconds = 0
    /\ consecutive_failures = 0
    /\ next_tick = 0
    /\ new_candidate_pids_set = {}
    /\ new_best_pid = NoPid
    /\ mon_result = "none"
    /\ candidate_pids = {}
    /\ best_pid = NoPid
    /\ is_foreground = FALSE
    /\ stop_signal = FALSE
    /\ registry = {}
    /\ hpc = "off"
    /\ last_pid = NoPid
    /\ stop_result = NoResult
    /\ stop_log = NoSnapshot
    /\ notifications = [phase |-> "none", misordered |-> ""]
    /\ failed_in_row = 0
    /\ session_ended = NoPayload
    /\ time_update = NoPayload
    /\ use_le = FALSE
    /\ use_magpie = FALSE
    /\ le_path = ""
    /\ magpie_path = ""
    /\ lpc = "returned"
    /\ launch_result = "ok"
    /\ raw_os_error = 0
    /\ spawned = {"direct"}
    /\ elevations = 0
    /\ mpc = "off"
    /\ LocksFree

\* the first sleep, the initial scan and the choice of best_pid
LinuxScan ==
    /\ pc = "lx_sleep"
    /\ now' = start_time + MONITOR_CHECK_INTERVAL_SECS * LINUX_STARTUP_TICKS
    /\ \E pids \in GetAllCandidatePidsByScope :
          /\ candidate_pids' = pids
          /\ \E r \in SelectBestFromCandidates(pids) :
                IF r.panics
                THEN LinuxEnds("panic") /\ UNCHANGED best_pid
                ELSE IF ~r.found
                     THEN LinuxEnds("err") /\ UNCHANGED best_pid
                     ELSE /\ best_pid' = r.pid
                          /\ pc' = "lx_started"
                          /\ UNCHANGED <<mon_result, accumulated_seconds,
                                         consecutive_failures, failed_in_row, next_tick>>
    /\ ResultTaken
    /\ UNCHANGED <<alive, fg, started, start_time, new_candidate_pids_set, new_best_pid,
                   is_foreground, stop_signal, registry, hookVars, launchVars, lockVars,
                   sideVars, notifications, time_update, session_ended>>

\* the session-started emission
LinuxEmitStarted ==
    /\ pc = "lx_started"
    /\ \E ok \in BOOLEAN :
          /\ notifications' = Emit(notifications, "started", ok)
          /\ IF ok
             THEN /\ pc' = "lx_settle"
                  /\ UNCHANGED <<mon_result, accumulated_seconds, consecutive_failures,
                                 failed_in_row, next_tick>>
             ELSE LinuxEnds("err")
    /\ ResultTaken
    /\ UNCHANGED <<alive, fg, started, now, start_time, new_candidate_pids_set,
                   new_best_pid, is_foreground, stop_signal, registry, hookVars,
                   launchVars, lockVars, sideVars, candidate_pids, best_pid, time_update,
                   session_ended>>

\* the second sleep, the second scan and the second choice of best_pid
LinuxRescan ==
    /\ pc = "lx_settle"
    /\ now' = now + MONITOR_CHECK_INTERVAL_SECS * LINUX_SETTLE_TICKS
    /\ \E pids \in GetAllCandidatePidsByScope :
          /\ candidate_pids' = pids
          /\ \E r \in SelectBestFromCandidates(pids) :
                IF r.panics
                THEN LinuxEnds("panic") /\ UNCHANGED best_pid
                ELSE /\ best_pid' = IF r.found THEN r.pid ELSE best_pid
                     /\ pc' = "lx_loop"
                     /\ UNCHANGED <<mon_result, accumulated_seconds, consecutive_failures,
                                    failed_in_row, next_tick>>
    /\ ResultTaken
    /\ UNCHANGED <<alive, fg, started, start_time, new_candidate_pids_set, new_best_pid,
                   is_foreground, stop_signal, registry, hookVars, launchVars, lockVars,
                   sideVars, notifications, time_update, session_ended>>

\* one iteration of the Linux loop
LinuxTick ==
    /\ pc = "lx_loop"
    /\ now < LinuxHorizon
    /\ now' = now + MONITOR_CHECK_INTERVAL_SECS
    /\ \E game_running \in IsGameRunning :
          IF ~game_running
          THEN /\ consecutive_failures' = consecutive_failures + 1
               /\ failed_in_row' = Observe(failed_in_row, FALSE)
               /\ pc' = IF consecutive_failures + 1 >= MAX_CONSECUTIVE_FAILURES
                         THEN "finalize" ELSE "lx_loop"
               /\ UNCHANGED <<accumulated_seconds, candidate_pids, best_pid, mon_result,
                              notifications, time_update, next_tick>>
          ELSE \E r \in CheckAnyForeground(candidate_pids) :
                 IF r.panics
                 THEN /\ LinuxEnds("panic")
                      /\ UNCHANGED <<candidate_pids, best_pid, notifications, time_update>>
                 ELSE IF r.found
                      THEN /\ best_pid' = r.pid
                           /\ UNCHANGED candidate_pids
                           /\ \E ok \in BOOLEAN :
                                 /\ notifications' = Emit(notifications, "time_update", ok)
                                 /\ time_update' =
                                       IF ok THEN LastUpdate(accumulated_seconds + 1)
                                             ELSE NoPayload
                                 /\ IF ok
                                    THEN /\ accumulated_seconds' = accumulated_seconds + 1
                                         /\ consecutive_failures' = 0
                                         /\ failed_in_row' = Observe(failed_in_row, TRUE)
                                         /\ pc' = "lx_loop"
                                         /\ UNCHANGED <<mon_result, next_tick>>
                                    ELSE LinuxEnds("err")
                      ELSE /\ candidate_pids' \in GetAllCandidatePidsByScope
                           /\ consecutive_failures' = 0
                           /\ failed_in_row' = Observe(failed_in_row, TRUE)
                           /\ pc' = "lx_loop"
                           /\ UNCHANGED <<accumulated_seconds, best_pid, mon_result,
                                          notifications, time_update, next_tick>>
    /\ ResultTaken
    /\ UNCHANGED <<alive, fg, started, start_time, new_candidate_pids_set, new_best_pid,
                   is_foreground, stop_signal, registry, hookVars, launchVars, lockVars,
                   sideVars, session_ended>>

\* the task is over; Linux has no guard to drop
LinuxReturn ==
    /\ pc = "drop"
    /\ pc' = "done"
    /\ ResultTaken
    /\ UNCHANGED <<envVars, start_time, accumulated_seconds, consecutive_failures,
                   next_tick, new_candidate_pids_set, new_best_pid, mon_result,
                   candidate_pids, best_pid, is_foreground, stop_signal, registry,
                   hookVars, notifications, failed_in_row, session_ended, time_update,
                   launchVars, lockVars, sideVars>>

LinuxNext ==
    \/ \E p \in LateStarters : Spawn(p)
    \/ \E p \in GamePids : Die(p)
    \/ LinuxScan
    \/ LinuxEmitStarted
    \/ LinuxRescan
    \/ LinuxTick
    \/ Finalize
    \/ LinuxReturn

LinuxSpec == LinuxInit /\ [][LinuxNext]_vars

\* ------------------------------------------------------------------------
\* The launch alone, with every combination of options, tool paths and spawn results
\* ------------------------------------------------------------------------
LaunchInit ==
    /\ MonitorIdle
    /\ LaunchIdle
    /\ le_path \in PathStates
    /\ magpie_path \in PathStates
    /\ LocksFree

LaunchNext ==
    \/ \E game_path \in {"", "game.exe"}, le, magpie \in BOOLEAN :
          LaunchGame(game_path, le, magpie)
    \/ Launch
    \/ SpawnFails
    \/ Elevate
    \/ MagpieStart
    \/ MagpieActivate
    \/ ClearCache

LaunchSpec == LaunchInit /\ [][LaunchNext]_vars

\* the steps of the monitor task
MonitorTask ==
    \/ Seed \/ EmitStarted \/ Tick \/ RescanWritePids \/ RescanWriteState
    \/ Unregister \/ Finalize \/ GuardDrop

\* the steps of the hook thread
HookThread ==
    HookCheck \/ HookPoll \/ HookKnown \/ HookEscapeInsert \/ HookEscapeState

\* the monitor task and the hook thread are scheduled again and again (tokio runtime,
\* blocking thread pool): each of their steps that stays enabled is eventually taken
Fairness == WF_vars(MonitorTask) /\ WF_vars(HookThread)

LiveSpec == Spec /\ Fairness



\* ------------------------------------------------------------------------
\* Properties
\* ------------------------------------------------------------------------
\* positions of the monitor task between the end of the initialisation and the exit
\* from the loop
Tracking == {"started", "loop", "rescan_pids", "rescan_state"}

\* positions of the monitor task after the loop
AfterLoop == {"unregister", "finalize", "drop", "done"}

\* a step that is an iteration of the monitor loop
TickStep == pc = "loop" /\ next_tick' # next_tick

\* a step that is a call of stop_game_session
StopStep == stop_result'.status # "none"

\* C1: while the session is initialised and has not ended, best_pid is a member of the
\* candidate set whenever the set is not empty
C1_BestPidIsCandidate ==
    (pc \in Tracking /\ candidate_pids # {}) => best_pid \in candidate_pids

\* C2: once the monitor function is over after its loop had been entered, the session is
\* not in the registry, whatever ended the loop
C2_UnregisteredAfterLoop ==
    (pc = "done" /\ notifications.phase # "none") => GameId \notin registry

\* C3: a stop call for a game_id that is not in the registry returns the no-such-session
\* error, stores no stop signal, terminates nothing and leaves the registry as it was
C3_StopUnknownSession ==
    [][(StopStep /\ stop_result'.game_id \notin registry)
          => /\ stop_result'.status = "no_session"
             /\ UNCHANGED <<stop_signal, alive, fg, registry, stop_log, candidate_pids>>]_vars

C3_Witness ==
    /\ stop_result.status = "no_session"
    /\ stop_result.game_id = GameId
    /\ notifications.phase = "ended"
    /\ pc = "done"

C5_RegisteredSinceLaunch ==
    pc \in {"grace"} \cup Tracking => GameId \in registry

\* C6: the loop starts a rescan only on a tick whose liveness check failed like the two
\* checks before it; a failed check followed by a successful one sets the failure
\* counter to 0 and leads neither to a rescan (the only place where the loop emits
\* process-switched) nor out of the loop towards the end of the session
C6_Debounce ==
    [][/\ (TickStep /\ ~stop_signal /\ pc' \in {"rescan_pids", "unregister"})
             => failed_in_row' = 3
       /\ (TickStep /\ failed_in_row >= 1 /\ failed_in_row' = 0)
             => /\ consecutive_failures' = 0
                /\ pc' \notin {"rescan_pids", "rescan_state", "unregister", "finalize"}]_vars

C6_Witness ==
    pc = "rescan_pids" /\ failed_in_row = 3 /\ consecutive_failures = 3

\* C7: the accumulated active seconds never exceed the wall-clock seconds since
\* start_time, and a tick adds at most one second
C7_ActiveWithinElapsed ==
    pc # "idle" => accumulated_seconds <= now - start_time

C7_Witness ==
    accumulated_seconds >= 2 /\ accumulated_seconds = now - start_time - 2

C9_Cancellation ==
    /\ [][(TickStep /\ stop_signal)
             => /\ pc' = "unregister"
                /\ UNCHANGED <<accumulated_seconds, consecutive_failures, failed_in_row,
                               candidate_pids, best_pid, is_foreground, notifications>>]_vars
    /\ [][(hpc = "check" /\ hpc' # hpc /\ stop_signal) => hpc' = "exited"]_vars
    /\ (stop_signal ~> (pc \in AfterLoop /\ hpc = "exited"))

C9_Witness ==
    /\ pc = "unregister" /\ hpc = "exited"
    /\ stop_signal /\ failed_in_row = 0

\* C10: however the monitor function ends, the stop signal is set afterwards and the
\* hook thread eventually ends
C10_GuardEndsHook ==
    /\ [](pc = "done" => stop_signal)
    /\ (pc = "done" ~> hpc = "exited")

C10_Witness ==
    pc = "done" /\ hpc = "exited" /\ mon_result = "err" /\ notifications.phase = "started"

\* C11: a notification that cannot be delivered is not escalated: the monitor function
\* never goes from its initialisation or its loop straight to its return; it comes to
\* its return only from finalize_session, after the session left the registry
C11_EmissionFailureNotEscalated ==
    [][(pc # "drop" /\ pc' = "drop") => (pc = "finalize" /\ GameId \notin registry)]_vars

\* a step that is one poll of the hook thread, from the sleep to the end of the
\* classification
PollStep == hpc = "poll" /\ hpc' # "poll"

\* C13: a poll at which the foreground window belongs to a running process B whose
\* executable lies under the game directory and which is not in the candidate set
\* detects the escape also when B was the foreground PID at the poll before; the
\* detection adds B to the candidate set, then sets the foreground flag and best_pid = B
C13_EscapeDetected ==
    /\ [][(PollStep /\ ExecutableUnderGameDirectory(fg) /\ fg \notin candidate_pids
               /\ last_pid = fg)
             => hpc' = "escape_insert"]_vars
    /\ [][(hpc = "escape_insert" /\ hpc' # hpc) => last_pid \in candidate_pids']_vars
    /\ [][(hpc = "escape_state" /\ hpc' # hpc)
             => (is_foreground' /\ best_pid' = last_pid)]_vars

\* C17: a poll that ends with the foreground window's PID known to the hook and in the
\* candidate set leaves the foreground flag true and best_pid equal to that PID
C17_KnownForegroundCounts ==
    /\ [][(PollStep /\ hpc' = "check" /\ fg # NoPid /\ fg \in candidate_pids
               /\ last_pid' = fg)
             => (is_foreground' /\ best_pid' = fg)]_vars
    /\ [][(hpc = "known" /\ hpc' # hpc) => (is_foreground' /\ best_pid' = last_pid)]_vars

\* C18: while the monitor function runs, accumulated_seconds (its local) never
\* decreases; it changes only by +1 and only on a tick that read the stop signal as
\* unset, found best_pid running and read the foreground flag as true
C18_AccumulationMonotonic ==
    [][pc' # "drop"
          => \/ accumulated_seconds' = accumulated_seconds
             \/ /\ accumulated_seconds' = accumulated_seconds + 1
                /\ TickStep /\ ~stop_signal
                /\ IsProcessRunning(best_pid) /\ is_foreground]_vars

C18_Witness ==
    pc = "loop" /\ accumulated_seconds = 1 /\ failed_in_row = 1 /\ is_foreground

\* C19: a tick of the loop that runs while the candidate set is empty ends the session
C19_EmptySetEndsAtNextTick ==
    [][(TickStep /\ candidate_pids = {}) => pc' = "unregister"]_vars

\* C16: the totalMinutes of a delivered session-ended notification is floor(s/60) when
\* s mod 60 < 30 and floor(s/60) + 1 when s mod 60 >= 30, s being the accumulated
\* seconds (its totalSeconds); 29, 30, 90 and 91 seconds give 0, 1, 2 and 2 minutes
C16_RoundingLaw ==
    session_ended.delivered =>
        LET s == session_ended.totalSeconds
            m == session_ended.totalMinutes
        IN  /\ (s % 60 < 30) => m = s \div 60
            /\ (s % 60 >= 30) => m = (s \div 60) + 1
            /\ s = 29 => m = 0
            /\ s = 30 => m = 1
            /\ s = 90 => m = 2
            /\ s = 91 => m = 2

C16_Witness ==
    /\ session_ended.delivered
    /\ session_ended.totalSeconds = 30
    /\ session_ended.totalMinutes = 1
    /\ pc = "done"

\* an option of the call requires a companion tool whose path is the empty string
ToolPathUnset ==
    \/ use_le /\ le_path = ""
    \/ use_magpie /\ magpie_path = ""

\* C14: once launch_game was called with an option that requires a companion tool whose
\* path is not configured, no external process is spawned, no monitor task is started
\* and the call does not return success
C14_ConfigurationErrorBeforeSpawn ==
    (lpc # "idle" /\ ToolPathUnset)
        => (spawned = {} /\ pc = "idle" /\ launch_result # "ok")

\* C15: shell_execute_runas is called at most once and only after the direct spawn
\* failed with error 740; after any other spawn failure and after a failed elevated
\* attempt the call has returned an error and no monitor task runs; when the call has
\* returned, a monitor task was started exactly when the direct spawn or the elevated
\* retry created the process
C15_ElevationOnceOnlyOn740 ==
    /\ elevations <= 1
    /\ elevations = 1 => (raw_os_error = ERROR_ELEVATION_REQUIRED /\ "direct" \notin spawned)
    /\ (raw_os_error \notin {0, ERROR_ELEVATION_REQUIRED})
          => (lpc = "returned" /\ launch_result = "err" /\ pc = "idle" /\ elevations = 0)
    /\ (elevations = 1 /\ "elevated" \notin spawned)
          => (lpc = "returned" /\ launch_result = "err" /\ pc = "idle")
    /\ lpc = "returned"
          => /\ (pc # "idle") <=> (spawned \cap {"direct", "elevated"} # {})
             /\ (launch_result = "ok") <=> (pc # "idle")
    /\ lpc # "returned" => pc = "idle"

C15_Witness ==
    /\ lpc = "returned"
    /\ launch_result = "ok"
    /\ raw_os_error = ERROR_ELEVATION_REQUIRED
    /\ elevations = 1
    /\ "elevated" \in spawned
    /\ pc = "grace"

\* C20: a rescan whose enumeration is not empty chooses as new best_pid a member of the
\* enumerated set, the foreground candidate first; the candidate set becomes the
\* enumerated set; best_pid becomes the chosen PID, the failure counter is reset, at most
\* the process-switched notification is delivered and the loop goes on; a rescan whose
\* enumeration is empty ends the loop
C20_RescanOutcome ==
    /\ [][(TickStep /\ pc' = "rescan_pids")
             => /\ new_candidate_pids_set' = GetAllCandidatePids
                /\ new_best_pid' \in new_candidate_pids_set'
                /\ (fg \in new_candidate_pids_set' => new_best_pid' = fg)]_vars
    /\ [][(pc = "rescan_pids" /\ pc' # pc)
             => (candidate_pids' = new_candidate_pids_set /\ pc' = "rescan_state")]_vars
    /\ [][(pc = "rescan_state" /\ pc' # pc)
             => /\ best_pid' = new_best_pid
                /\ consecutive_failures' = 0
                /\ notifications' \in {notifications,
                                       Delivered(notifications, "process_switched")}
                /\ pc' = "loop"]_vars
    /\ [][(TickStep /\ ~stop_signal /\ ~IsProcessRunning(best_pid)
              /\ RescanDue(consecutive_failures + 1) /\ GetAllCandidatePids = {})
             => pc' = "unregister"]_vars

\* t waits for u: t is blocked in an acquire and u holds a guard that excludes it, or t
\* wants to read and u is a writer already waiting for the same lock (a parking_lot
\* reader queues behind a waiting writer)
WaitsFor(t, u) ==
    \E e \in Pending(t) :
        \/ \E h \in holders[e.lock] :
              h[1] = u /\ (e.mode = "write" \/ h[2] = "write")
        \/ /\ e.mode = "read"
           /\ u # t
           /\ \E w \in Pending(u) : w.lock = e.lock /\ w.mode = "write"

\* a chain of waits of at most n links leads from t to u
RECURSIVE WaitsWithin(_, _, _)
WaitsWithin(t, u, n) ==
    IF n = 0 THEN FALSE
    ELSE \/ WaitsFor(t, u)
         \/ \E v \in Threads : WaitsFor(t, v) /\ WaitsWithin(v, u, n - 1)

NoWaitCycle == \A t \in Threads : ~WaitsWithin(t, t, Cardinality(Threads))

\* the registry lock is requested only by a thread that holds no lock; the monitor task
\* and the hook thread hold at most one lock
RegistryFirst ==
    /\ \A t \in Threads :
          (\E e \in Pending(t) : e.lock = "registry") => Held(t) = {}
    /\ \A t \in {"monitor", "hook"} :
          /\ Cardinality(Held(t)) <= 1
          /\ (Pending(t) # {}) => Held(t) = {}

\* C12 as stated: no thread holds the registry lock and the candidate-set lock at the
\* same time, the monitor task and the hook thread never ask for the registry lock (or
\* any lock) while holding one, and no cycle of lock waits exists
C12_LockOrdering ==
    /\ \A t \in Threads : ~({"registry", "candidates"} \subseteq Held(t))
    /\ RegistryFirst
    /\ NoWaitCycle

\* C12, amended: only stop_game_session and get_game_candidate_pids hold the registry
\* lock and the candidate-set lock at the same time, both for reading, the candidate-set
\* lock taken second and released first; the monitor task and the hook thread hold at
\* most one lock and ask for none while holding one; no cycle of lock waits exists
C12_LockOrderingNested ==
    /\ \A t \in Threads :
          ({"registry", "candidates"} \subseteq Held(t))
              => /\ t \in {"stop", "query"}
                 /\ <<t, "read">> \in holders["registry"]
                 /\ <<t, "read">> \in holders["candidates"]
    /\ \A t \in Threads :
          ("candidates" \in Held(t) /\ t \in {"stop", "query"}) => "registry" \in Held(t)
    /\ RegistryFirst
    /\ NoWaitCycle

\* stop_game_session holds both guards while the hook thread waits to insert an escaped
\* PID and the monitor task waits to unregister
C12_Witness ==
    /\ Held("stop") = {"registry", "candidates"}
    /\ \E e \in Pending("hook") : e.lock = "candidates" /\ e.mode = "write"
    /\ \E e \in Pending("monitor") : e.lock = "registry" /\ e.mode = "write"
    /\ WaitsFor("hook", "stop")
    /\ WaitsFor("monitor", "stop")

\* the step that ends the Starting state
SeedStep == pc = "grace" /\ pc' = "started"

\* C21: at the end of the Starting state best_pid is the candidate that owns the
\* foreground window if there is one, else a member of the candidate set, else (no
\* candidate) the supplied PID
C21_InitialBestPidByPriority ==
    [][SeedStep
         => /\ (fg \in candidate_pids') => best_pid' = fg
            /\ (candidate_pids' # {}) => best_pid' \in candidate_pids'
            /\ (candidate_pids' = {}) => best_pid' = InitialPid]_vars

\* C22: after a tick on which best_pid was found alive the candidate set holds no PID
\* whose process was not running on that tick
C22_DeadCandidatesPruned ==
    [][(TickStep /\ ~stop_signal /\ IsProcessRunning(best_pid))
         => candidate_pids' \subseteq alive]_vars

\* C26: the stop signal, once true, stays true, and a tick that finds it set leaves the
\* loop before any other work: nothing is counted, checked or emitted
C26_StopSignalSetOnce ==
    /\ [][stop_signal => stop_signal']_vars
    /\ [][(TickStep /\ stop_signal)
             => /\ pc' = "unregister"
                /\ UNCHANGED <<accumulated_seconds, consecutive_failures, failed_in_row,
                               notifications, time_update, candidate_pids, best_pid,
                               is_foreground>>]_vars

\* a stop call stored the signal again after the loop had read it and left
C26_Witness ==
    /\ pc = "unregister"
    /\ failed_in_row = 0
    /\ stop_signal
    /\ stop_result.status = "ok"

\* C29: the loop is left towards the session-ended notification only by a tick that read
\* the stop signal as set, or whose liveness check was the third failure in a row and
\* whose re-enumeration was empty; a tick without stop request on which best_pid is
\* running stays in the loop
C29_NoFalseEnd ==
    /\ [][(pc # "unregister" /\ pc' = "unregister")
             => /\ TickStep
                /\ \/ stop_signal
                   \/ /\ ~IsProcessRunning(best_pid)
                      /\ failed_in_row' = MAX_CONSECUTIVE_FAILURES
                      /\ GetAllCandidatePids = {}]_vars
    /\ [][(pc # "finalize" /\ pc' = "finalize") => pc = "unregister"]_vars
    /\ [][(TickStep /\ ~stop_signal /\ IsProcessRunning(best_pid)) => pc' = "loop"]_vars

\* C30: a tick that increases accumulated_seconds delivers a time-update whose
\* totalSeconds is the new value and whose totalMinutes is floor(totalSeconds / 60); a
\* delivered session-ended notification has the totalSeconds of the last time-update
\* (0 if there was none) and the last reported totalMinutes or one more
C30_PayloadsAgree ==
    /\ [][(TickStep /\ accumulated_seconds' > accumulated_seconds)
             => /\ accumulated_seconds' = accumulated_seconds + 1
                /\ notifications' = Delivered(notifications, "time_update")
                /\ time_update'.delivered
                /\ time_update'.totalSeconds = accumulated_seconds'
                /\ time_update'.totalMinutes * 60 <= time_update'.totalSeconds
                /\ time_update'.totalSeconds < (time_update'.totalMinutes + 1) * 60]_vars
    /\ [][(pc = "finalize" /\ session_ended'.delivered)
             => /\ session_ended'.totalSeconds =
                      (IF time_update.delivered THEN time_update.totalSeconds ELSE 0)
                /\ session_ended'.totalMinutes
                      \in {time_update.totalMinutes, time_update.totalMinutes + 1}]_vars

\* a tick of the examined session counted one more second than the longest initial
\* time, and the session ended with one minute more than the last time-update reported
C30_Witness ==
    /\ session_ended.delivered
    /\ session_ended.totalSeconds = MaxSeconds + 1
    /\ session_ended.totalMinutes = UpdateMinutes(MaxSeconds + 1) + 1

\* C23: the manager's own PID is never in the candidate set and never best_pid, and no
\* stop call issues a termination attempt for it, also when the manager's executable
\* lies under the game directory
C23_ManagerNeverCandidate ==
    /\ ManagerPid \notin candidate_pids
    /\ best_pid # ManagerPid
    /\ stop_log[ManagerPid] \notin {"killed", "failed"}

\* C28: when a stop call returns success, every PID that is then a member of the
\* candidate set and was running during the call has received a termination attempt,
\* whatever the hook thread did between the copy of the candidate list and the return
C28_StopCoversCandidateSet ==
    [][(stop_call.active /\ ~stop_call'.active)
         => \A p \in candidate_pids' \cap alive :
               stop_log'[p] \in {"killed", "failed"}]_vars

\* the task s is between its registration and the exit of its loop
SessionRunning(s) == sessions[s].pc \in {"started", "loop"}

\* C27: the registry entry under the game_id of a running session is that session, and
\* the unregistration of one session leaves the entry of every other running session
\* in place
C27_RegistryEntryIsOwn ==
    /\ [](\A s \in Sessions : SessionRunning(s) => entries[sessions[s].game_id] = s)
    /\ [][\A s, t \in Sessions :
            (/\ s # t
             /\ sessions[s].pc = "unregister" /\ sessions'[s].pc = "drop"
             /\ SessionRunning(t)
             /\ entries[sessions[t].game_id] = t)
                => entries'[sessions[t].game_id] = t]_vars

\* a scan of the scope that yields no candidate
EmptyScan == pc \in {"lx_sleep", "lx_settle"} /\ now' # now /\ candidate_pids' = {}

\* C24: on Linux the monitor never panics; a first scan without candidates returns the
\* no-candidates error and emits nothing, a later scan without candidates lets the loop
\* run
C24_NoPanicWithoutCandidates ==
    /\ [](mon_result # "panic")
    /\ [][(EmptyScan /\ pc = "lx_sleep")
             => mon_result' = "err" /\ notifications' = notifications]_vars
    /\ [][(EmptyScan /\ pc = "lx_settle") => pc' = "lx_loop"]_vars

\* an iteration of the Linux loop
LinuxTickStep == pc = "lx_loop" /\ now' # now

====
